---- MODULE Spec2Model ----
(***************************************************************************)
(* The index layer of cacache-rs (src/index.rs): bucket files holding an   *)
(* append-only log of checksummed JSON lines, and insert / find / delete / *)
(* ls on top of it.                                                        *)
(*                                                                         *)
(* Text is modelled as a sequence of tokens, a token being a sequence of   *)
(* strings: <<"\n">> and <<"\t">> are the two separators the code splits   *)
(* on, <<"{">> and <<"}">> delimit a JSON object, <<name, ...value>> is    *)
(* one JSON member, and <<"sha256", ...>> is a hex digest.  Options are    *)
(* sequences of length at most one: <<>> is None and <<x>> is Some(x).     *)
(***************************************************************************)
EXTENDS Integers, Sequences, FiniteSets, Bags, TLC

VARIABLES
    dirs,       \* the directories that exist, as paths below the cache root
    files,      \* the regular files that exist: path -> content (text)
    ret,        \* the last call made on the API and what it returned
    history,    \* what was appended to the bucket files so far, oldest first
    procs,      \* the callers that are inside insert: what each has yet to write
    unreadable  \* the directories whose entries the walk of ls may not list

vars == <<dirs, files, ret, history, procs, unreadable>>

-----------------------------------------------------------------------------
(* Bounds of the model *)

MaxCalls == 3       \* inserts and deletes of a run of the API alone
MaxLines == 2       \* lines appended in a run with damaged and foreign lines
MaxConcCalls == 3   \* inserts and deletes begun in a run of concurrent callers
MaxShort == 1       \* calls of write that come back short, in one run

-----------------------------------------------------------------------------
(* Inputs *)

Keys == {"a", "b", "c"}

None == <<>>
Some(x) == <<x>>

Sri1 == [algorithm |-> "sha1", digest |-> "deadbeef"]
Sri2 == [algorithm |-> "sha256", digest |-> "cafe"]

JNull == <<"null">>
JMeta == <<"str", "m">>

\* The option sets insert is called with (PutOpts without uid / gid).
OptSets ==
    { [sri |-> Some(Sri1), time |-> Some(12), size |-> None,    metadata |-> None],
      [sri |-> Some(Sri2), time |-> None,     size |-> Some(5), metadata |-> Some(JMeta)],
      [sri |-> None,       time |-> Some(12), size |-> Some(5), metadata |-> None] }

\* PutOpts of delete (lines 95-103): every field None.
DeleteOpts == [sri |-> None, time |-> None, size |-> None, metadata |-> None]

\* The values the wall clock returns to now().
NowValues == {3}

-----------------------------------------------------------------------------
(* Text *)

NL == <<"\n">>
TAB == <<"\t">>
LBrace == <<"{">>
RBrace == <<"}">>

RECURSIVE Concat(_)
Concat(text) ==
    IF text = <<>> THEN <<>> ELSE Head(text) \o Concat(Tail(text))

\* str::split: the pieces between the separators, empty pieces included.
RECURSIVE SplitFrom(_, _, _, _)
SplitFrom(text, sep, start, i) ==
    IF i > Len(text) THEN <<SubSeq(text, start, Len(text))>>
    ELSE IF text[i] = sep
         THEN <<SubSeq(text, start, i - 1)>> \o SplitFrom(text, sep, i + 1, i + 1)
         ELSE SplitFrom(text, sep, start, i + 1)

Split(text, sep) == SplitFrom(text, sep, 1, 1)

IsPrefix(s, t) == Len(s) <= Len(t) /\ SubSeq(t, 1, Len(s)) = s

DigitChars == <<"0", "1", "2", "3", "4", "5", "6", "7", "8", "9">>

\* Decimal rendering of an unsigned number.
RECURSIVE Digits(_)
Digits(n) ==
    IF n < 10 THEN <<DigitChars[n + 1]>>
    ELSE Append(Digits(n \div 10), DigitChars[(n % 10) + 1])

DigitValue(c) == CHOOSE d \in 0..9 : DigitChars[d + 1] = c

IsDigits(s) ==
    /\ Len(s) >= 1
    /\ \A i \in 1..Len(s) : \E d \in 0..9 : DigitChars[d + 1] = s[i]
    /\ (Len(s) > 1 => s[1] /= "0")

RECURSIVE ParseDigits(_)
ParseDigits(s) ==
    IF Len(s) = 1 THEN DigitValue(s[1])
    ELSE 10 * ParseDigits(SubSeq(s, 1, Len(s) - 1)) + DigitValue(s[Len(s)])

-----------------------------------------------------------------------------
(* Integrity handles (ssri), as index.rs uses them *)

Algorithms == {"sha1", "sha256", "sha384", "sha512"}

\* Integrity::to_string (line 50): "<algorithm>-<digest>".
IntegrityToString(sri) == <<sri.algorithm, "-", sri.digest>>

\* str::parse::<Integrity> (lines 64, 74, 131): Some(handle), or None on error.
IntegrityParse(s) ==
    IF Len(s) = 3 /\ s[2] = "-" /\ s[1] \in Algorithms
    THEN Some([algorithm |-> s[1], digest |-> s[3]])
    ELSE None

-----------------------------------------------------------------------------
(* Entry codec *)

JsonStr(s) == <<"str">> \o s
JsonNum(n) == <<"num">> \o Digits(n)

IsJsonStr(v) == Len(v) >= 1 /\ v[1] = "str"
IsJsonNum(v) == Len(v) >= 2 /\ v[1] = "num" /\ IsDigits(Tail(v))
IsJsonValue(v) == v = JNull \/ IsJsonStr(v) \/ IsJsonNum(v)

\* serde_json::to_string(&SerializableEntry {..}) (lines 48-54).
to_string(se) ==
    << LBrace,
       <<"key">> \o JsonStr(<<se.key>>),
       <<"integrity">> \o (IF se.integrity = None THEN JNull
                           ELSE JsonStr(se.integrity[1])),
       <<"time">> \o JsonNum(se.time),
       <<"size">> \o JsonNum(se.size),
       <<"metadata">> \o se.metadata,
       RBrace >>

\* hash_entry (lines 162-166): the hex digest of the text, one token.
hash_entry(text) == <<"sha256">> \o Concat(text)

\* The value of the member called name in a JSON object's body: None when
\* there is no such member, and Some(value) otherwise.
Member(body, name) ==
    LET at == {i \in 1..Len(body) : body[i][1] = name} IN
    IF at = {} THEN None ELSE Some(Tail(body[CHOOSE i \in at : TRUE]))

Duplicate(body) ==
    \E i, j \in 1..Len(body) : i < j /\ body[i][1] = body[j][1]

\* serde_json::from_str::<SerializableEntry> (line 198): None on error.
\* key, time, size and metadata are required, integrity may be null or
\* missing, and a member set twice is an error.
from_str(text) ==
    IF Len(text) < 2 \/ text[1] /= LBrace \/ text[Len(text)] /= RBrace
    THEN None
    ELSE
    LET body == SubSeq(text, 2, Len(text) - 1)
        key == Member(body, "key")
        integrity == Member(body, "integrity")
        time == Member(body, "time")
        size == Member(body, "size")
        metadata == Member(body, "metadata")
    IN
    IF  \/ \E i \in 1..Len(body) : Len(body[i]) < 2 \/ ~IsJsonValue(Tail(body[i]))
        \/ Duplicate(body)
        \/ key = None \/ time = None \/ size = None \/ metadata = None
    THEN None
    ELSE IF \/ ~IsJsonStr(key[1]) \/ Len(key[1]) /= 2
            \/ ~IsJsonNum(time[1]) \/ ~IsJsonNum(size[1])
            \/ (integrity /= None /\ integrity[1] /= JNull /\ ~IsJsonStr(integrity[1]))
    THEN None
    ELSE Some([ key       |-> key[1][2],
                integrity |-> IF integrity = None \/ integrity[1] = JNull
                              THEN None
                              ELSE Some(Tail(integrity[1])),
                time      |-> ParseDigits(Tail(time[1])),
                size      |-> ParseDigits(Tail(size[1])),
                metadata  |-> metadata[1] ])

-----------------------------------------------------------------------------
(* Key hasher and bucket path *)

INDEX_VERSION == "5"

\* hash_key (lines 156-160): the hex digest of the key, as the three slices
\* bucket_path takes of it ([0..2], [2..4], [4..]).  "a" and "b" are a
\* colliding pair; "c" shares only the first two hex digits with them.
hash_key(key) ==
    CASE key = "a" -> << <<"0a">>, <<"1b">>, <<"2c">> >>
      [] key = "b" -> << <<"0a">>, <<"1b">>, <<"2c">> >>
      [] OTHER     -> << <<"0a">>, <<"3d">>, <<"4e">> >>

\* format!("index-v{}", INDEX_VERSION) under the cache root (lines 109-111):
\* a path is a sequence of segments, the cache root being <<>>.
IndexDir == << <<"index-v", INDEX_VERSION>> >>

\* bucket_path (lines 145-154), relative to the cache root.
bucket_path(key) ==
    LET hashed == hash_key(key) IN
    IndexDir \o <<hashed[1]>> \o <<hashed[2]>> \o <<hashed[3]>>

Parent(path) == SubSeq(path, 1, Len(path) - 1)

\* mkdirp: the path and every ancestor of it.
Ancestors(path) == {SubSeq(path, 1, n) : n \in 0..Len(path)}

-----------------------------------------------------------------------------
(* Bucket log reader *)

\* DecodeLine, were the checksum not compared with the payload's.
DecodeLine_NoChecksum(acc, entry) ==
    IF entry = <<>> THEN acc
    ELSE LET fields == Split(entry, TAB) IN
         IF Len(fields) /= 2 THEN acc
         ELSE LET parsed == from_str(fields[2]) IN
              IF parsed /= None THEN Append(acc, parsed[1]) ELSE acc

\* One step of the fold of bucket_entries (lines 181-202) over a line.
DecodeLine(acc, entry) ==
    IF entry = <<>> THEN acc
    ELSE LET fields == Split(entry, TAB) IN
         IF Len(fields) /= 2 THEN acc
         ELSE IF <<hash_entry(fields[2])>> /= fields[1] THEN acc
         ELSE LET parsed == from_str(fields[2]) IN
              IF parsed /= None THEN Append(acc, parsed[1]) ELSE acc

RECURSIVE DecodeLines(_, _, _)
DecodeLines(lines, i, acc) ==
    IF i > Len(lines) THEN acc
    ELSE DecodeLines(lines, i + 1, DecodeLine(acc, lines[i]))

\* fs::read_to_string with NotFound mapped to "" (lines 176-180).
read_to_string(fs, bucket) ==
    IF bucket \in DOMAIN fs THEN fs[bucket] ELSE <<>>

\* Bytes that are no UTF-8 text.
NotUtf8 == <<"0xff">>

\* ReadFails, were a missing file an error like any other.
ReadFails_NotFoundToo(fs, bucket) ==
    bucket \notin DOMAIN fs \/ \E i \in 1..Len(fs[bucket]) : fs[bucket][i] = NotUtf8

\* fs::read_to_string returning an error that is not NotFound (line 179):
\* the file holds bytes that are no UTF-8 text.
ReadFails(fs, bucket) ==
    bucket \in DOMAIN fs /\ \E i \in 1..Len(fs[bucket]) : fs[bucket][i] = NotUtf8

\* bucket_entries (lines 175-203), the read having succeeded.
bucket_entries(fs, bucket) ==
    DecodeLines(Split(read_to_string(fs, bucket), NL), 1, <<>>)

-----------------------------------------------------------------------------
(* find *)

\* FindStep, were the key of a record not compared with the key sought.
FindStep_AnyKey(acc, entry, key) ==
    IF entry.integrity /= None
    THEN IF IntegrityParse(entry.integrity[1]) = None
         THEN acc
         ELSE Some([ key       |-> entry.key,
                     integrity |-> IntegrityParse(entry.integrity[1])[1],
                     size      |-> entry.size,
                     time      |-> entry.time,
                     metadata  |-> entry.metadata ])
    ELSE None

\* FindStep, were a record once found never replaced by a later one.
FindStep_FirstWins(acc, entry, key) ==
    IF acc /= None THEN acc
    ELSE IF entry.key = key /\ entry.integrity /= None
              /\ IntegrityParse(entry.integrity[1]) /= None
         THEN Some([ key       |-> entry.key,
                     integrity |-> IntegrityParse(entry.integrity[1])[1],
                     size      |-> entry.size,
                     time      |-> entry.time,
                     metadata  |-> entry.metadata ])
         ELSE acc

\* FindStep, were an integrity string that does not parse taken as a
\* tombstone.
FindStep_BadIntegrityIsNone(acc, entry, key) ==
    IF entry.key = key
    THEN IF entry.integrity /= None /\ IntegrityParse(entry.integrity[1]) /= None
         THEN Some([ key       |-> entry.key,
                     integrity |-> IntegrityParse(entry.integrity[1])[1],
                     size      |-> entry.size,
                     time      |-> entry.time,
                     metadata  |-> entry.metadata ])
         ELSE None
    ELSE acc

\* FindStep, were a tombstone passed over like a record of another key.
FindStep_TombstoneSkipped(acc, entry, key) ==
    IF entry.key = key /\ entry.integrity /= None
       /\ IntegrityParse(entry.integrity[1]) /= None
    THEN Some([ key       |-> entry.key,
                integrity |-> IntegrityParse(entry.integrity[1])[1],
                size      |-> entry.size,
                time      |-> entry.time,
                metadata  |-> entry.metadata ])
    ELSE acc

\* The closure folded by find (lines 71-91).
FindStep(acc, entry, key) ==
    IF entry.key = key
    THEN IF entry.integrity /= None
         THEN IF IntegrityParse(entry.integrity[1]) = None
              THEN acc
              ELSE Some([ key       |-> entry.key,
                          integrity |-> IntegrityParse(entry.integrity[1])[1],
                          size      |-> entry.size,
                          time      |-> entry.time,
                          metadata  |-> entry.metadata ])
         ELSE None
    ELSE acc

RECURSIVE FindFold(_, _, _, _)
FindFold(entries, key, i, acc) ==
    IF i > Len(entries) THEN acc
    ELSE FindFold(entries, key, i + 1, FindStep(acc, entries[i], key))

\* find (lines 67-92): None, or Some(Entry).
find(fs, key) == FindFold(bucket_entries(fs, bucket_path(key)), key, 1, None)

-----------------------------------------------------------------------------
(* ls *)

\* Dedupe, were a key's first entry kept instead of its last.
Dedupe_FirstWins(entries) ==
    { entries[i] : i \in { n \in 1..Len(entries) :
                             \A j \in 1..(n - 1) :
                                 entries[j].key /= entries[n].key } }

\* The values of the HashMap built at lines 120-123: each key's last entry.
Dedupe(entries) ==
    { entries[i] : i \in { n \in 1..Len(entries) :
                             \A j \in (n + 1)..Len(entries) :
                                 entries[j].key /= entries[n].key } }

\* The entries left by the filter of line 126.
Survivors(entries) == {se \in Dedupe(entries) : se.integrity /= None}

\* LsEntry, were the time of the record taken for the size of the Entry.
LsEntry_TimeAsSize(se) ==
    [ key       |-> se.key,
      integrity |-> IntegrityParse(se.integrity[1])[1],
      time      |-> se.time,
      size      |-> se.time,
      metadata  |-> se.metadata ]

\* The map of lines 127-136 on one surviving entry; parse().unwrap() panics
\* where IntegrityParse gives None, and LsBucket tells that case apart.
LsEntry(se) ==
    [ key       |-> se.key,
      integrity |-> IntegrityParse(se.integrity[1])[1],
      time      |-> se.time,
      size      |-> se.size,
      metadata  |-> se.metadata ]

\* What ls makes of one bucket file (lines 119-137).
LsBucket(fs, bucket) ==
    LET survivors == Survivors(bucket_entries(fs, bucket)) IN
    IF \E se \in survivors : IntegrityParse(se.integrity[1]) = None
    THEN [panicked |-> TRUE, entries |-> EmptyBag]
    ELSE [panicked |-> FALSE, entries |-> SetToBag({LsEntry(se) : se \in survivors})]

\* The bucket files WalkDir finds below the index directory.
BucketFiles(fs) == {p \in DOMAIN fs : IsPrefix(IndexDir, p)}

\* The orders in which a walk may come upon the files of S.
Orders(S) ==
    {o \in [1..Cardinality(S) -> S] : \A i, j \in DOMAIN o : o[i] = o[j] => i = j}

\* A path the walk reaches: no directory on the way to it, from the index
\* directory down, is one that may not be listed.
Reached(un, path) ==
    \A n \in Len(IndexDir)..(Len(path) - 1) : SubSeq(path, 1, n) \notin un

\* WalkItems, were a directory read like a bucket file.
WalkItems_DirsAreBuckets(ds, fs, un) ==
    {p \in BucketFiles(fs) : Reached(un, p)}
        \cup {d \in ds : IsPrefix(IndexDir, d) /\ Reached(un, d)}

\* The items of WalkDir (line 112) that the closure of ls does not answer
\* with nothing (lines 115-118): the bucket files the walk reaches, and one
\* error for each directory it reaches and may not list.
WalkItems(ds, fs, un) ==
    {p \in BucketFiles(fs) : Reached(un, p)}
        \cup {d \in ds \cap un : IsPrefix(IndexDir, d) /\ Reached(un, d)}

\* The items ls has yielded when its iterator is drained, the walk coming
\* upon its items in this order (lines 112-142): the entries, the number of
\* error items, and whether the iteration ended in a panic.  An item that
\* is no file is an error of the walk (line 115); a file that cannot be
\* read is an error of bucket_entries (line 119).
RECURSIVE LsWalk_StopsAtError(_, _, _, _)
\* LsWalk, were the enumeration ended by the first error item.
LsWalk_StopsAtError(fs, order, i, acc) ==
    IF i > Len(order) THEN acc
    ELSE IF order[i] \notin DOMAIN fs \/ ReadFails(fs, order[i])
    THEN [acc EXCEPT !.errors = acc.errors + 1]
    ELSE LET b == LsBucket(fs, order[i]) IN
         IF b.panicked THEN [acc EXCEPT !.panicked = TRUE]
         ELSE LsWalk_StopsAtError(fs, order, i + 1,
                     [acc EXCEPT !.entries = acc.entries (+) b.entries])

RECURSIVE LsWalk(_, _, _, _)
LsWalk(fs, order, i, acc) ==
    IF i > Len(order) THEN acc
    ELSE IF order[i] \notin DOMAIN fs \/ ReadFails(fs, order[i])
    THEN LsWalk(fs, order, i + 1, [acc EXCEPT !.errors = acc.errors + 1])
    ELSE LET b == LsBucket(fs, order[i]) IN
         IF b.panicked THEN [acc EXCEPT !.panicked = TRUE]
         ELSE LsWalk(fs, order, i + 1,
                     [acc EXCEPT !.entries = acc.entries (+) b.entries])

\* ls, were a missing index directory walked as an empty one.
ls_MissingRootIsEmpty(ds, fs, order) ==
    LsWalk(fs, order, 1, [panicked |-> FALSE, entries |-> EmptyBag, errors |-> 0])

ls(ds, fs, order) ==
    IF IndexDir \notin ds
    THEN [panicked |-> FALSE, entries |-> EmptyBag, errors |-> 1]
    ELSE LsWalk(fs, order, 1, [panicked |-> FALSE, entries |-> EmptyBag, errors |-> 0])

-----------------------------------------------------------------------------
(* The API called by one caller at a time, each call running to its end *)

NoRet ==
    [ op |-> "none", key |-> "", ok |-> TRUE, found |-> None, sri |-> None,
      entries |-> EmptyBag, errors |-> 0 ]

\* Serializable, were the time of the options ignored for the clock's.
Serializable_ClockOnly(key, opts, now) ==
    [ key       |-> key,
      integrity |-> IF opts.sri = None THEN None
                    ELSE Some(IntegrityToString(opts.sri[1])),
      time      |-> now,
      size      |-> IF opts.size = None THEN 0 ELSE opts.size[1],
      metadata  |-> IF opts.metadata = None THEN JNull ELSE opts.metadata[1] ]

\* The SerializableEntry insert builds (lines 48-54).
Serializable(key, opts, now) ==
    [ key       |-> key,
      integrity |-> IF opts.sri = None THEN None
                    ELSE Some(IntegrityToString(opts.sri[1])),
      time      |-> IF opts.time = None THEN now ELSE opts.time[1],
      size      |-> IF opts.size = None THEN 0 ELSE opts.size[1],
      metadata  |-> IF opts.metadata = None THEN JNull ELSE opts.metadata[1] ]

\* EncodeLine, were the line written without a newline before it.
EncodeLine_NoNewline(se) ==
    LET stringified == to_string(se) IN
    <<hash_entry(stringified), TAB>> \o stringified

\* EncodeLine, were the newline put after the record instead of before it.
EncodeLine_NewlineLast(se) ==
    LET stringified == to_string(se) IN
    <<hash_entry(stringified), TAB>> \o stringified \o <<NL>>

\* The line insert writes (line 55).
EncodeLine(se) ==
    LET stringified == to_string(se) IN
    <<NL, hash_entry(stringified), TAB>> \o stringified

\* AppendTo, were the file opened for writing without append(true).
AppendTo_Overwrites(fs, bucket, text) ==
    [ p \in DOMAIN fs \cup {bucket} |->
        IF p = bucket
        THEN text \o SubSeq(read_to_string(fs, bucket), Len(text) + 1,
                            Len(read_to_string(fs, bucket)))
        ELSE fs[p] ]

\* OpenOptions create + append, then write_all of the whole text (56-60).
AppendTo(fs, bucket, text) ==
    [ p \in DOMAIN fs \cup {bucket} |->
        IF p = bucket THEN read_to_string(fs, bucket) \o text ELSE fs[p] ]

\* InsertResult, were the placeholder returned whatever handle was given.
InsertResult_PlaceholderAlways(opts) ==
    IntegrityParse(<<"sha1", "-", "deadbeef">>)[1]

\* What insert returns (lines 62-64).
InsertResult(opts) ==
    IF opts.sri = None THEN IntegrityParse(<<"sha1", "-", "deadbeef">>)[1]
    ELSE opts.sri[1]

\* An element of history: the arguments of the call (for a line that insert
\* wrote), the SerializableEntry a reader is to decode from the line (None
\* for a line that holds no record), and the text that went into the file.
Appended(kind, key, opts, now, se, line) ==
    [ kind |-> kind, bucket |-> bucket_path(key), key |-> key, sri |-> opts.sri,
      time |-> IF opts.time = None THEN now ELSE opts.time[1],
      size |-> opts.size, metadata |-> opts.metadata,
      se |-> se, line |-> line ]

Procs == {"w1", "w2"}

\* A caller outside insert; shorts counts the short writes it has had.
Idle ==
    [ pc |-> "idle", op |-> "none", key |-> "", opts |-> DeleteOpts, now |-> 0,
      buf |-> <<>>, shorts |-> 0 ]

\* insert (lines 43-65), every step of it succeeding, as one step.
InsertCall(op, key, opts, now, max) ==
    LET se == Serializable(key, opts, now) IN
    /\ Len(history) < max
    /\ dirs' = dirs \cup Ancestors(Parent(bucket_path(key)))
    /\ files' = AppendTo(files, bucket_path(key), EncodeLine(se))
    /\ history' = Append(history, Appended("call", key, opts, now, Some(se), EncodeLine(se)))
    /\ ret' = [NoRet EXCEPT !.op = op, !.key = key, !.sri = Some(InsertResult(opts))]
    /\ UNCHANGED <<procs, unreadable>>

Insert(max) ==
    \E key \in Keys, opts \in OptSets, now \in NowValues :
        InsertCall("insert", key, opts, now, max)

\* delete (lines 94-106).
Delete(max) ==
    \E key \in Keys, now \in NowValues :
        InsertCall("delete", key, DeleteOpts, now, max)

\* A read changes nothing but ret, so a read taken after another read reaches
\* only the states the same read reaches when taken straight after the last
\* write: reads are taken in that position.
AfterWrite == ret.op \in {"none", "insert", "delete"}

\* find (lines 67-92).
Find ==
    \E key \in Keys :
        /\ AfterWrite
        /\ ret' = IF ReadFails(files, bucket_path(key))
                  THEN [NoRet EXCEPT !.op = "find", !.key = key, !.ok = FALSE]
                  ELSE [NoRet EXCEPT !.op = "find", !.key = key,
                                     !.found = find(files, key)]
        /\ UNCHANGED <<dirs, files, history, procs, unreadable>>

\* ls (lines 108-143), drained by the caller.
Ls ==
    \E order \in Orders(WalkItems(dirs, files, unreadable)) :
        LET r == ls(dirs, files, order) IN
        /\ AfterWrite
        /\ ret' = [NoRet EXCEPT !.op = "ls", !.ok = ~r.panicked,
                                !.entries = r.entries, !.errors = r.errors]
        /\ UNCHANGED <<dirs, files, history, procs, unreadable>>

Init ==
    /\ dirs = {<<>>}
    /\ files = <<>>
    /\ ret = NoRet
    /\ history = <<>>
    /\ procs = [p \in Procs |-> Idle]
    /\ unreadable = {}

Next == Insert(MaxCalls) \/ Delete(MaxCalls) \/ Find \/ Ls

Spec == Init /\ [][Next]_vars

-----------------------------------------------------------------------------
(* What the calls made so far lead one to expect *)

CallsFor(key) ==
    {i \in 1..Len(history) : history[i].kind = "call" /\ history[i].key = key}

LastCallFor(key) ==
    history[CHOOSE i \in CallsFor(key) : \A j \in CallsFor(key) : j <= i]

\* The Entry whose fields are the values one insert was given.
InsertedEntry(call) ==
    [ key       |-> call.key,
      integrity |-> call.sri[1],
      time      |-> call.time,
      size      |-> IF call.size = None THEN 0 ELSE call.size[1],
      metadata  |-> IF call.metadata = None THEN JNull ELSE call.metadata[1] ]

\* The keys whose last append carried an integrity handle.
LiveKeys == {k \in Keys : CallsFor(k) /= {} /\ LastCallFor(k).sri /= None}

-----------------------------------------------------------------------------
(* Claims on the API called by one caller *)

\* C1 (round trip): a find of a key whose last append was an insert with an
\* integrity handle returns an Entry with that key and with the integrity,
\* time, size and metadata the insert was given (size 0 and metadata null
\* where it was given none), whatever else the bucket holds.
C1_RoundTrip ==
    (ret.op = "find" /\ ret.key \in LiveKeys)
        => ret.found = Some(InsertedEntry(LastCallFor(ret.key)))

\* A find returning the entry of an insert given neither size nor metadata,
\* two records of a colliding key having been appended after it.
C1_Witness ==
    /\ ret.op = "find" /\ ret.found /= None
    /\ Len(history) = 3
    /\ history[1].key = ret.key /\ history[1].size = None
    /\ history[2].key /= ret.key /\ history[3].key /= ret.key
    /\ bucket_path(history[2].key) = bucket_path(ret.key)
    /\ bucket_path(history[3].key) = bucket_path(ret.key)
    /\ ret.found[1].size = 0 /\ ret.found[1].metadata = JNull

\* C2 (last write wins): when a key was inserted several times with an
\* integrity handle, find returns the values of the last of these inserts
\* and not the differing values of an earlier one.
C2_LastWriteWins ==
    ret.op = "find" =>
        \A i, j \in CallsFor(ret.key) :
            ( /\ i < j
              /\ \A n \in CallsFor(ret.key) : n <= j
              /\ history[i].sri /= None /\ history[j].sri /= None
              /\ InsertedEntry(history[i]) /= InsertedEntry(history[j]) )
            => /\ ret.found /= Some(InsertedEntry(history[i]))
               /\ ret.found = Some(InsertedEntry(history[j]))

\* A find after two inserts of its key with different values.
C2_Witness ==
    /\ ret.op = "find" /\ ret.found /= None
    /\ \E i, j \in CallsFor(ret.key) :
          /\ i < j
          /\ history[i].sri /= None /\ history[j].sri /= None
          /\ history[i].sri /= history[j].sri
          /\ ret.found[1].integrity = history[j].sri[1]

\* C3 (tombstones): a find of a key whose last append was a delete, or an
\* insert without integrity handle, returns not-found, whatever was inserted
\* before; and once a later insert with an integrity handle has succeeded,
\* find returns the Entry of that insert.
C3_Tombstones ==
    (ret.op = "find" /\ CallsFor(ret.key) /= {}) =>
        LET last == LastCallFor(ret.key) IN
        /\ last.sri = None => ret.found = None
        /\ ( /\ last.sri /= None
             /\ \E i \in CallsFor(ret.key) : history[i].sri = None )
           => ret.found = Some(InsertedEntry(last))

\* A find returning not-found for a key that was inserted and then deleted.
C3_Witness ==
    /\ ret.op = "find" /\ ret.found = None
    /\ \E i, j \in CallsFor(ret.key) :
          /\ i < j
          /\ history[i].sri /= None /\ history[j].sri = None
          /\ \A n \in CallsFor(ret.key) : n <= j

C6_AppendOnly ==
    [][ /\ \A p \in DOMAIN files :
              p \in DOMAIN files' /\ IsPrefix(files[p], files'[p])
        /\ ret'.op \in {"find", "ls"} => (files' = files /\ dirs' = dirs)
        /\ ret'.op \in {"insert", "delete"} =>
              LET b == bucket_path(ret'.key) IN
              /\ \A p \in DOMAIN files' : p = b \/ (p \in DOMAIN files /\ files'[p] = files[p])
              /\ Len(Split(files'[b], NL)) = Len(Split(read_to_string(files, b), NL)) + 1
              /\ Len(bucket_entries(files', b)) = Len(bucket_entries(files, b)) + 1
      ]_vars

\* A delete having appended to a bucket file that held two records.
C6_Witness ==
    /\ ret.op = "delete"
    /\ Len(bucket_entries(files, bucket_path(ret.key))) = 3

-----------------------------------------------------------------------------
(* Bucket files that also hold lines insert did not write *)

\* A record of the key that a damaged line is made from.
Victim(key) ==
    [ key |-> key, integrity |-> Some(IntegrityToString(Sri2)),
      time |-> 7, size |-> 9, metadata |-> JNull ]

\* The payload of Victim without its metadata member.
Incomplete(key) ==
    SubSeq(to_string(Victim(key)), 1, 5) \o <<RBrace>>

\* Damaged lines: three tab-separated fields; a checksum that is not the
\* payload's; a payload that is no SerializableEntry under its own checksum.
DamagedLines(key) ==
    { <<hash_entry(to_string(Victim(key))), TAB>> \o to_string(Victim(key))
          \o <<TAB, <<"x">> >>,
      <<hash_entry(Incomplete(key)), TAB>> \o to_string(Victim(key)),
      <<hash_entry(Incomplete(key)), TAB>> \o Incomplete(key) }

\* An integrity string that str::parse::<Integrity> rejects.
BadIntegrity == <<"md5", "-", "00">>

\* A record with a checksum that holds and an integrity string that does
\* not parse, as another writer of the index-v5 layout may leave it.
ForeignRecord(key) ==
    [ key |-> key, integrity |-> Some(BadIntegrity),
      time |-> 7, size |-> 9, metadata |-> JNull ]

NotACall == [sri |-> None, time |-> Some(0), size |-> None, metadata |-> None]

\* A damaged line comes to stand after the lines of a bucket file.
Damage ==
    \E key \in {"a", "c"} : \E line \in DamagedLines(key) :
        /\ Len(history) < MaxLines
        /\ dirs' = dirs \cup Ancestors(Parent(bucket_path(key)))
        /\ files' = AppendTo(files, bucket_path(key), <<NL>> \o line)
        /\ history' = Append(history,
                Appended("damaged", key, NotACall, 0, None, <<NL>> \o line))
        /\ ret' = NoRet
        /\ UNCHANGED <<procs, unreadable>>

\* Another writer appends a record whose integrity string does not parse.
Foreign ==
    \E key \in Keys :
        LET se == ForeignRecord(key) IN
        /\ Len(history) < MaxLines
        /\ dirs' = dirs \cup Ancestors(Parent(bucket_path(key)))
        /\ files' = AppendTo(files, bucket_path(key), EncodeLine(se))
        /\ history' = Append(history,
                Appended("record", key, NotACall, 0, Some(se), EncodeLine(se)))
        /\ ret' = NoRet
        /\ UNCHANGED <<procs, unreadable>>

CorruptNext ==
    \/ Insert(MaxLines) \/ Delete(MaxLines) \/ Find \/ Ls
    \/ Damage \/ Foreign

SpecCorrupt == Init /\ [][CorruptNext]_vars

\* The buckets of the keys.
Buckets == {bucket_path(k) : k \in Keys}

RECURSIVE RecordsOf(_, _)
\* The records of the lines of h that went to the bucket, in file order.
RecordsOf(h, bucket) ==
    IF h = <<>> THEN <<>>
    ELSE IF Head(h).bucket = bucket /\ Head(h).se /= None
         THEN <<Head(h).se[1]>> \o RecordsOf(Tail(h), bucket)
         ELSE RecordsOf(Tail(h), bucket)

RECURSIVE TextOf(_, _)
\* The bucket file made of the lines of h that hold a record.
TextOf(h, bucket) ==
    IF h = <<>> THEN <<>>
    ELSE IF Head(h).bucket = bucket /\ Head(h).se /= None
         THEN Head(h).line \o TextOf(Tail(h), bucket)
         ELSE TextOf(Tail(h), bucket)

\* The files as they would be without the damaged lines.
Undamaged == [p \in DOMAIN files |-> TextOf(history, p)]

\* C5 (corruption tolerance): with damaged lines (three fields, checksum
\* mismatch, unparseable payload) anywhere between the records of a bucket
\* file, bucket_entries returns exactly the records, in file order, and
\* find and ls return what they return on the files without these lines.
C5_CorruptionTolerance ==
    /\ \A b \in Buckets : bucket_entries(files, b) = RecordsOf(history, b)
    /\ ret.op = "find" => ret.found = find(Undamaged, ret.key)
    /\ ret.op = "ls" =>
          \E order \in Orders(BucketFiles(files)) :
              LET r == ls(dirs, Undamaged, order) IN
              /\ ret.ok = ~r.panicked
              /\ ret.entries = r.entries
              /\ ret.errors = r.errors

\* A find returning the record that precedes a damaged line of its bucket.
C5_Witness ==
    /\ ret.op = "find" /\ ret.found /= None
    /\ Len(history) = 2
    /\ history[1].kind = "call" /\ history[1].key = ret.key
    /\ history[2].kind = "damaged" /\ history[2].bucket = history[1].bucket

\* The records of a key, oldest first, as positions in history.
RecordsFor(key) ==
    {i \in 1..Len(history) : history[i].se /= None /\ history[i].key = key}

LastRecordFor(key) ==
    history[CHOOSE i \in RecordsFor(key) : \A j \in RecordsFor(key) : j <= i]

Unparseable(h) == h.se[1].integrity /= None /\ IntegrityParse(h.se[1].integrity[1]) = None

ParseableFor(key) == {i \in RecordsFor(key) : ~Unparseable(history[i])}

BadKeys == {k \in Keys : RecordsFor(k) /= {} /\ Unparseable(LastRecordFor(k))}

\* C10 as claimed: ls neither fails nor aborts on a key whose last record
\* carries an integrity string that does not parse; it omits that key and
\* yields the entries of all other keys.
C10_LsOmitsBadIntegrity ==
    (ret.op = "ls" /\ BadKeys /= {}) =>
        /\ ret.ok
        /\ ret.errors = 0
        /\ ret.entries = SetToBag({InsertedEntry(LastCallFor(k)) : k \in LiveKeys \ BadKeys})

-----------------------------------------------------------------------------
(* insert and delete failing *)

\* The calls that are made to fail.
FailInputs ==
    { [op |-> "insert", key |-> "a", opts |-> CHOOSE o \in OptSets : o.sri = Some(Sri1)],
      [op |-> "delete", key |-> "c", opts |-> DeleteOpts] }

\* insert (lines 43-65) returning an error, or its process being killed:
\* in mkdirp (line 45), nothing being created; in chownr or open (lines 46,
\* 59), the directories being there; in write_all (line 60), which calls
\* write until the text is out and stops at the first error, the file then
\* ending with the tokens written before it, fewer than the line has; or in
\* the chownr of the bucket file (line 61), the whole line being written.
InsertFails ==
    \E call \in FailInputs, now \in NowValues :
    \E at \in {"mkdirp", "open", "write", "chownr"} :
        LET bucket == bucket_path(call.key)
            se == Serializable(call.key, call.opts, now)
            line == EncodeLine(se)
        IN
        \E written \in 0..Len(line) :
            /\ Len(history) < MaxLines
            /\ at \in {"mkdirp", "open"} => written = 0
            /\ at = "write" => written < Len(line)
            /\ at = "chownr" => written = Len(line)
            /\ dirs' = IF at = "mkdirp" THEN dirs
                       ELSE dirs \cup Ancestors(Parent(bucket))
            /\ files' = IF at \in {"write", "chownr"}
                        THEN AppendTo(files, bucket, SubSeq(line, 1, written))
                        ELSE files
            /\ history' = Append(history,
                    Appended("failed", call.key, call.opts, now,
                             IF at = "chownr" THEN Some(se) ELSE None,
                             SubSeq(line, 1, written)))
            /\ ret' = [NoRet EXCEPT !.op = call.op, !.key = call.key, !.ok = FALSE]
            /\ UNCHANGED <<procs, unreadable>>

FailNext ==
    \/ Insert(MaxLines) \/ Delete(MaxLines) \/ Find \/ Ls
    \/ InsertFails

SpecFail == Init /\ [][FailNext]_vars

\* The lines of a bucket file that are not empty.
LinesOf(bucket) ==
    LET lines == Split(read_to_string(files, bucket), NL) IN
    {lines[i] : i \in {n \in 1..Len(lines) : lines[n] /= <<>>}}

IntendedLine(h) ==
    EncodeLine(Serializable(h.key,
        [sri |-> h.sri, time |-> Some(h.time), size |-> h.size, metadata |-> h.metadata],
        h.time))

-----------------------------------------------------------------------------
(* Concurrent callers *)

\* The option sets of the concurrent inserts, and delete's.
ConcOpts == {o \in OptSets : o.sri = Some(Sri1)} \cup {DeleteOpts}

InFlight == {p \in Procs : procs[p].pc = "write"}

Shorts == procs["w1"].shorts + procs["w2"].shorts

\* insert up to the open of line 59: the directories are made, the line is
\* encoded and the bucket file exists, opened for append.
Begin(p) ==
    \E key \in Keys, opts \in ConcOpts, now \in NowValues :
        /\ procs[p].pc = "idle"
        /\ Len(history) + Cardinality(InFlight) < MaxConcCalls
        /\ dirs' = dirs \cup Ancestors(Parent(bucket_path(key)))
        /\ files' = AppendTo(files, bucket_path(key), <<>>)
        /\ procs' = [procs EXCEPT ![p] =
                [ pc |-> "write", op |-> IF opts = DeleteOpts THEN "delete" ELSE "insert",
                  key |-> key, opts |-> opts, now |-> now,
                  buf |-> EncodeLine(Serializable(key, opts, now)),
                  shorts |-> procs[p].shorts ]]
        /\ ret' = NoRet
        /\ UNCHANGED <<history, unreadable>>

\* One call of write inside write_all (line 60) on the file opened for
\* append: the tokens it takes go to the end of the file as it is now.  It
\* may take fewer than it is given, and write_all then calls it again.
Write(p) ==
    \E n \in 1..Len(procs[p].buf) :
        LET c == procs[p]
            bucket == bucket_path(c.key)
            se == Serializable(c.key, c.opts, c.now)
        IN
        /\ c.pc = "write"
        /\ n < Len(c.buf) => Shorts < MaxShort
        /\ files' = AppendTo(files, bucket, SubSeq(c.buf, 1, n))
        /\ IF n < Len(c.buf)
           THEN /\ procs' = [procs EXCEPT ![p].buf = SubSeq(c.buf, n + 1, Len(c.buf)),
                                          ![p].shorts = c.shorts + 1]
                /\ ret' = NoRet
                /\ UNCHANGED history
           ELSE /\ procs' = [procs EXCEPT ![p] = [Idle EXCEPT !.shorts = c.shorts]]
                /\ history' = Append(history,
                        Appended("call", c.key, c.opts, c.now, Some(se), EncodeLine(se)))
                /\ ret' = [NoRet EXCEPT !.op = c.op, !.key = c.key,
                                        !.sri = Some(InsertResult(c.opts))]
        /\ UNCHANGED <<dirs, unreadable>>

ConcNext ==
    \/ \E p \in Procs : Begin(p)
    \/ \E p \in Procs : Write(p)
    \/ Find
    \/ Ls

SpecConc == Init /\ [][ConcNext]_vars

\* The bucket files made of the first n[b] appends completed on each
\* bucket b, for n a number of appends per bucket.
PrefixFiles(n) ==
    [b \in Buckets |-> TextOf(SubSeq(history, 1, n[b]), b)]

RECURSIVE LsOver(_, _)
\* The entries ls yields for the bucket files fs, read in any order.
LsOver(fs, buckets) ==
    IF buckets = {} THEN EmptyBag
    ELSE LET b == CHOOSE x \in buckets : TRUE IN
         LsBucket(fs, b).entries (+) LsOver(fs, buckets \ {b})

\* C7 as claimed: a find or ls that runs while other callers insert and
\* delete returns, for each bucket it reads, what it would return on the
\* file made of some prefix of the appends completed on that bucket.
C7_ReaderPrefixView ==
    /\ ret.op = "find" =>
          \E n \in [Buckets -> 0..Len(history)] :
              ret.found = find(PrefixFiles(n), ret.key)
    /\ (ret.op = "ls" /\ ret.errors = 0) =>
          \E n \in [Buckets -> 0..Len(history)] :
              ret.entries = LsOver(PrefixFiles(n), Buckets)

-----------------------------------------------------------------------------
(* Bucket files that cannot be read and directories that cannot be listed *)

\* The bucket files that are no UTF-8 text, and the directories that may not
\* be listed, at any one time.
MaxFaults == 2

Garbled == {p \in DOMAIN files : ReadFails(files, p)}

\* Bytes that are no UTF-8 text come to stand in a bucket file.
Garble ==
    \E p \in DOMAIN files \ Garbled :
        /\ Cardinality(Garbled) + Cardinality(unreadable) < MaxFaults
        /\ files' = AppendTo(files, p, <<NotUtf8>>)
        /\ ret' = NoRet
        /\ UNCHANGED <<dirs, history, procs, unreadable>>

\* A directory of the index loses the permission to list it; files below it
\* can still be opened by their path.
Deny ==
    \E d \in dirs \ unreadable :
        /\ IsPrefix(IndexDir, d)
        /\ Cardinality(Garbled) + Cardinality(unreadable) < MaxFaults
        /\ unreadable' = unreadable \cup {d}
        /\ ret' = NoRet
        /\ UNCHANGED <<dirs, files, history, procs>>

ErrNext ==
    \/ Insert(MaxLines) \/ Delete(MaxLines) \/ Find \/ Ls
    \/ Garble \/ Deny

SpecErr == Init /\ [][ErrNext]_vars

\* The bucket files the walk reaches and bucket_entries cannot read.
FailedBuckets == {p \in Garbled : Reached(unreadable, p)}

\* The directories the walk reaches and may not list.
DeniedDirs == {d \in unreadable : Reached(unreadable, d)}

\* The live keys whose bucket file the walk reaches and can read.
ReadableKeys ==
    {k \in LiveKeys : /\ Reached(unreadable, bucket_path(k))
                      /\ bucket_path(k) \notin Garbled}

\* C11 (ls error isolation): with the index directory in place, ls runs to
\* its end and yields one error item for each bucket file that cannot be
\* read and one for each directory that cannot be listed, and besides them
\* the Entry of every live key of every bucket file it reaches and can read.
C11_LsErrorIsolation ==
    (ret.op = "ls" /\ IndexDir \in dirs) =>
        /\ ret.ok
        /\ ret.errors = Cardinality(FailedBuckets) + Cardinality(DeniedDirs)
        /\ ret.entries = SetToBag({InsertedEntry(LastCallFor(k)) : k \in ReadableKeys})

\* An ls yielding one error item for an unreadable bucket file and the
\* Entry of another bucket file.
C11_Witness ==
    /\ ret.op = "ls"
    /\ ret.errors = 1
    /\ FailedBuckets /= {}
    /\ ret.entries /= EmptyBag

-----------------------------------------------------------------------------
(* Claims on what the calls return and leave behind *)

\* C12 (find without bucket file): a find of a key whose bucket file does
\* not exist, in a fresh cache or beside the buckets of other keys, returns
\* not-found as a success and creates neither file nor directory.
C12_FindMissingBucket ==
    [][ (ret'.op = "find" /\ bucket_path(ret'.key) \notin DOMAIN files) =>
            /\ ret'.ok
            /\ ret'.found = None
            /\ files' = files
            /\ dirs' = dirs
      ]_vars

\* A find having returned not-found for a key without bucket file, in a
\* cache that holds the bucket file of another key.
C12_Witness ==
    /\ ret.op = "find" /\ ret.ok /\ ret.found = None
    /\ bucket_path(ret.key) \notin DOMAIN files
    /\ DOMAIN files /= {}

\* C13 (what insert returns): an insert that succeeds with an integrity
\* handle returns that handle, and the record it appended stores the same
\* handle; an insert given no handle succeeds as well, appends a tombstone
\* and returns the placeholder handle sha1-deadbeef.
C13_InsertReturns ==
    ret.op = "insert" =>
        LET call == history[Len(history)]
            stored == bucket_entries(files, call.bucket)
            rec == stored[Len(stored)]
        IN
        /\ ret.ok
        /\ rec.key = call.key
        /\ call.sri /= None =>
              /\ ret.sri = call.sri
              /\ rec.integrity /= None
              /\ IntegrityParse(rec.integrity[1]) = ret.sri
        /\ call.sri = None =>
              /\ rec.integrity = None
              /\ ret.sri = Some([algorithm |-> "sha1", digest |-> "deadbeef"])

\* An insert given no integrity handle having returned the placeholder, on
\* a bucket file that held the record of an insert with a handle.
C13_Witness ==
    /\ ret.op = "insert" /\ ret.ok
    /\ Len(history) = 2
    /\ history[1].sri = Some(Sri2) /\ history[1].bucket = history[2].bucket
    /\ history[2].sri = None
    /\ ret.sri = Some([algorithm |-> "sha1", digest |-> "deadbeef"])

-----------------------------------------------------------------------------
(* Claims on concurrent callers *)

\* C14 as claimed: when no caller is inside insert or delete any more,
\* every bucket file holds the records of all completed appends, whole and
\* in the order the appends completed, and find of a key returns what the
\* last completed append for the key says.
C14_NoLostAppend ==
    InFlight = {} =>
        /\ \A b \in Buckets : bucket_entries(files, b) = RecordsOf(history, b)
        /\ \A k \in Keys :
              CallsFor(k) /= {} =>
                  find(files, k) = IF LastCallFor(k).sri = None THEN None
                                   ELSE Some(InsertedEntry(LastCallFor(k)))

-----------------------------------------------------------------------------
(* Claims on calls that fail or are interrupted *)

\* The keys whose last whole record in the bucket file, written by a call
\* that returned or by one that failed after its write, carries a handle.
WrittenLive ==
    {k \in Keys : RecordsFor(k) /= {} /\ LastRecordFor(k).sri /= None}

\* The shard directories that hold no bucket file.
EmptyShards ==
    {d \in dirs : /\ Len(d) = Len(IndexDir) + 2
                  /\ IsPrefix(IndexDir, d)
                  /\ ~\E p \in DOMAIN files : Parent(p) = d}

\* C15 (empty shard directory): when an insert ended after mkdirp and before
\* it opened the bucket file, the shard directory it left without file does
\* no harm: find of a key of that shard returns not-found; ls yields no error
\* item and exactly the entries of the keys whose last record carries a
\* handle, which are in other shards; and once an insert for a key of that
\* shard has succeeded, find of the key returns its Entry.
C15_EmptyShardBenign ==
    /\ (ret.op = "find" /\ Parent(bucket_path(ret.key)) \in EmptyShards) =>
          ret.ok /\ ret.found = None
    /\ (ret.op = "ls" /\ EmptyShards /= {}) =>
          /\ ret.ok
          /\ ret.errors = 0
          /\ ret.entries = SetToBag({InsertedEntry(LastRecordFor(k)) : k \in WrittenLive})
    /\ ( /\ ret.op = "find"
         /\ ret.key \in LiveKeys
         /\ LastRecordFor(ret.key) = LastCallFor(ret.key)
         /\ \E i \in 1..Len(history) :
               /\ history[i].kind = "failed"
               /\ history[i].bucket = bucket_path(ret.key)
               /\ history[i].line = <<>> ) =>
          ret.ok /\ ret.found = Some(InsertedEntry(LastCallFor(ret.key)))

\* An ls over a cache with a shard directory left empty by an interrupted
\* call and with a live key in another shard.
C15_Witness ==
    /\ ret.op = "ls"
    /\ EmptyShards /= {}
    /\ LiveKeys /= {}
    /\ \E i \in 1..Len(history) : history[i].kind = "failed"

\* The failed calls that left a fragment of their line in the bucket file.
Torn(bucket) ==
    {i \in 1..Len(history) : /\ history[i].kind = "failed"
                             /\ history[i].bucket = bucket
                             /\ history[i].se = None
                             /\ history[i].line /= <<>>}

\* C16 (recovery after a torn tail): in a bucket file in which a call that
\* was cut short left a fragment of its line, the records of the complete
\* inserts and deletes, those after the fragment included, are all decoded,
\* in file order, and nothing else is; and find of a key appended after the
\* fragment returns what the last record of the key says.
C16_TornTailRecovery ==
    /\ \A b \in Buckets :
          Torn(b) /= {} => bucket_entries(files, b) = RecordsOf(history, b)
    /\ ( /\ ret.op = "find"
         /\ \E i \in Torn(bucket_path(ret.key)) :
                \E j \in CallsFor(ret.key) : i < j ) =>
          /\ ret.ok
          /\ ret.found = IF LastRecordFor(ret.key).sri = None THEN None
                         ELSE Some(InsertedEntry(LastRecordFor(ret.key)))

\* A find returning the Entry of an insert that was appended behind a
\* fragment cut inside the payload.
C16_Witness ==
    /\ ret.op = "find" /\ ret.found /= None
    /\ Len(history) = 2
    /\ history[1].kind = "failed" /\ Len(history[1].line) > 4
    /\ history[1].bucket = bucket_path(ret.key)
    /\ history[2].kind = "call" /\ history[2].key = ret.key

-----------------------------------------------------------------------------
(* Claims relating the keys, and find with ls *)

\* The Entry ls yields for a key, as a set: empty when it yields none.
LsEntryOf(fs, key) ==
    {e \in BagToSet(LsBucket(fs, bucket_path(key)).entries) : e.key = key}

\* C17 (key isolation): an insert or delete on a key leaves, for every other
\* key, the result of find and the Entry ls yields as they were, also for a
\* key that shares the bucket file.
C17_KeyIsolation ==
    [][ ret'.op \in {"insert", "delete"} =>
            \A k2 \in Keys \ {ret'.key} :
                /\ find(files', k2) = find(files, k2)
                /\ LsEntryOf(files', k2) = LsEntryOf(files, k2)
      ]_vars

\* A delete having been appended to the bucket file that holds the record
\* of another, live key.
C17_Witness ==
    /\ ret.op = "delete"
    /\ \E k2 \in LiveKeys :
          /\ k2 /= ret.key
          /\ bucket_path(k2) = bucket_path(ret.key)
          /\ find(files, k2) /= None

\* C18 (find and ls agree): in every state reached by inserts and deletes
\* that succeeded, ls yields an Entry for exactly the keys for which find
\* returns one, once each, and it is the Entry find returns.
C18_FindLsAgree ==
    ret.op = "ls" =>
        /\ ret.ok
        /\ ret.entries =
              SetToBag({find(files, k)[1] : k \in {x \in Keys : find(files, x) /= None}})

\* An ls yielding one Entry from a cache that also holds a key that was
\* inserted and then deleted.
C18_Witness ==
    /\ ret.op = "ls"
    /\ BagCardinality(ret.entries) = 1
    /\ Len(history) = 3
    /\ \E k \in Keys \ LiveKeys :
          \E i \in CallsFor(k) : history[i].sri /= None

\* C19 as claimed: when insert or delete returns an error, every bucket
\* file has the content it had before the call, and find and ls give what
\* they gave before.
C19_FailedCallChangesNothing ==
    [][ (ret'.op \in {"insert", "delete"} /\ ~ret'.ok) =>
            /\ \A b \in Buckets :
                  read_to_string(files', b) = read_to_string(files, b)
            /\ \A k \in Keys : find(files', k) = find(files, k)
            /\ LsOver(files', Buckets) = LsOver(files, Buckets)
      ]_vars

\* C20 (no index directory): on a cache whose index directory does not
\* exist, ls runs to its end yielding one error item and no entry, and find
\* returns not-found as a success.
C20_NoIndexDir ==
    /\ (ret.op = "ls" /\ IndexDir \notin dirs) =>
          /\ ret.ok
          /\ ret.errors = 1
          /\ ret.entries = EmptyBag
    /\ (ret.op = "find" /\ IndexDir \notin dirs) =>
          ret.ok /\ ret.found = None

\* An ls having yielded its one error item on a cache without index
\* directory.
C20_Witness ==
    /\ ret.op = "ls"
    /\ IndexDir \notin dirs
    /\ ret.errors = 1

====
